---- MODULE Spec2Model ----
(***************************************************************************)
(* Model of the parallel-stacks graph builder (stackGraph.ts): frame       *)
(* identity, canonical ids, and buildGraph's two nested loops.             *)
(*                                                                         *)
(* Strings are sequences of one-character strings, so that template        *)
(* literals are real concatenations and String.includes is a real          *)
(* substring search.  The forest is a heap of node objects: `nodes` is the *)
(* sequence of objects created by the running call, a reference is an      *)
(* index into it, and every children array is a sequence of references in  *)
(* push order.                                                             *)
(*                                                                         *)
(* Spec follows buildGraph through its loops, IdsSpec does the same for    *)
(* snapshots whose entries may repeat a thread id, and PanelSpec follows   *)
(* one refresh of the panel: _updateGraph, getStackGraph with its threads  *)
(* and stackTrace requests, and _openFile.                                 *)
(***************************************************************************)
EXTENDS Integers, Sequences, FiniteSets, TLC

VARIABLES
    pc,                 \* "idle" | "loop" | "returned": position in buildGraph
    threadsData,        \* argument: sequence of ThreadData {id, name, frames}
    splitNodes,         \* argument: the canonical ids that must not be grouped
    nodes,              \* heap of the GraphNode objects created by this call
    rootNodes,          \* const rootNodes: GraphNode[] (references)
    t,                  \* index of `thread` in the outer for-of loop
    f,                  \* index of `frame` in the inner for-of loop
    currentLevelNodes,  \* 0: the rootNodes array; n > 0: nodes[n].children
    walk,               \* per thread, the nodes its cursor descended into
    made,               \* per thread, the nodes its frames created
    later,              \* TRUE once an earlier call has returned
    ppc,                \* "ready" | "threads" | "traces": position of a refresh
    threads,            \* const threads = threadsResponse.threads
    adapter,            \* per thread, what the debug target does with stackTrace
    threadDataPromises, \* per thread, the promise of its ThreadData
    order,              \* the threads in the order their promises settled
    sent,               \* the requests sent to the debug target by this refresh
    calls,              \* the invocations of getStackGraph and buildGraph
    posted,             \* the messages posted to the webview by this refresh
    editor,             \* what the last 'openFile' message did to the editor
    currentPanel,       \* static currentPanel: 0 for undefined, else a panel
    panels              \* heap of the ParallelStacksPanel objects created

graphVars == <<pc, threadsData, splitNodes, nodes, rootNodes, t, f,
               currentLevelNodes, walk, made, later>>

panelVars == <<ppc, threads, adapter, threadDataPromises, order, sent, calls,
               posted, editor>>

hostVars == <<currentPanel, panels>>

vars == <<graphVars, panelVars, hostVars>>

----------------------------------------------------------------------------
(* Bounds of the explored inputs. *)

MaxThreads == 2
MaxTotalFrames == 4
MaxSplit == 1
MaxPanels == 3

----------------------------------------------------------------------------
(* Strings *)

COLON == <<":">>
SPLIT_MARK == <<":", ":", "s", "p", "l", "i", "t", ":", ":">>
UNDEFINED_TEXT == <<"u", "n", "d", "e", "f", "i", "n", "e", "d">>

Digit(d) == <<"0", "1", "2", "3", "4", "5", "6", "7", "8", "9">>[d + 1]

RECURSIVE NumberToString(_)
\* `${n}` for a non-negative integer n
NumberToString(n) ==
    IF n < 10 THEN <<Digit(n)>>
    ELSE NumberToString(n \div 10) \o <<Digit(n % 10)>>

\* String.prototype.includes(sub)
StrIncludes(s, sub) ==
    \E i \in 1..(Len(s) - Len(sub) + 1) : SubSeq(s, i, i + Len(sub) - 1) = sub

\* Array.prototype.includes(x)
ArrIncludes(arr, x) == \E i \in 1..Len(arr) : arr[i] = x

----------------------------------------------------------------------------
(* Optional values: frame.source and source.path may be absent. *)

Undefined == [defined |-> FALSE, value |-> <<>>]
Some(s) == [defined |-> TRUE, value |-> s]

NoSource == [present |-> FALSE, hasPath |-> FALSE, path |-> <<>>]
SourceNoPath == [present |-> TRUE, hasPath |-> FALSE, path |-> <<>>]
Source(p) == [present |-> TRUE, hasPath |-> TRUE, path |-> p]

\* frame.source?.path
SourcePath(frame) ==
    IF frame.source.present /\ frame.source.hasPath
    THEN Some(frame.source.path)
    ELSE Undefined

\* `${v}` for a string-or-undefined v
TemplateText(v) == IF v.defined THEN v.value ELSE UNDEFINED_TEXT

----------------------------------------------------------------------------
(* Frame identity *)

canonicalId(frame) ==
    TemplateText(SourcePath(frame)) \o COLON \o NumberToString(frame.line)
        \o COLON \o NumberToString(frame.column) \o COLON \o frame.name

isSameFrame(f1, f2) ==
    /\ f1.name = f2.name
    /\ f1.line = f2.line
    /\ f1.column = f2.column
    /\ SourcePath(f1) = SourcePath(f2)

----------------------------------------------------------------------------
(* buildGraph: the body of the inner loop, statement by statement *)

\* splitNodes.includes(canonicalId)
shouldSplit(split, cid) == cid \in split

\* the array the cursor designates
LevelOf(ns, roots, cur) == IF cur = 0 THEN roots ELSE ns[cur].children

\* findNode gone wrong: the lookup scans every node built so far instead of
\* the current sibling list
findNodeAnywhere(ns, level, frame) ==
    LET hits == {n \in 1..Len(ns) :
                    /\ isSameFrame(ns[n].frame, frame)
                    /\ ~StrIncludes(ns[n].id, SPLIT_MARK)}
    IN  IF hits = {} THEN 0
        ELSE CHOOSE n \in hits : \A m \in hits : n <= m

\* currentLevelNodes.find(n => isSameFrame(n.frame, frame)
\*                             && !n.id.includes('::split::'))
\* 0 stands for undefined; otherwise the first match in array order
findNode(ns, level, frame) ==
    LET hits == {i \in 1..Len(level) :
                    /\ isSameFrame(ns[level[i]].frame, frame)
                    /\ ~StrIncludes(ns[level[i]].id, SPLIT_MARK)}
    IN  IF hits = {} THEN 0
        ELSE level[CHOOSE i \in hits : \A j \in hits : i <= j]

\* nodeIdFor gone wrong: the thread id is left out of a split node's id
nodeIdWithoutThread(split, cid, thread) ==
    IF shouldSplit(split, cid) THEN cid \o SPLIT_MARK ELSE cid

\* shouldSplit ? `${canonicalId}::split::${thread.id}` : canonicalId
nodeIdFor(split, cid, thread) ==
    IF shouldSplit(split, cid)
    THEN cid \o SPLIT_MARK \o NumberToString(thread.id)
    ELSE cid

\* the object literal assigned to `node` when none was found
newNode(nodeId, frame) ==
    [id          |-> nodeId,
     frame       |-> [id        |-> frame.id,
                      name      |-> frame.name,
                      source    |-> frame.source,
                      line      |-> frame.line,
                      column    |-> frame.column,
                      threadIds |-> <<>>],
     children    |-> <<>>,
     threadIds   |-> <<>>,
     threadNames |-> <<>>]

\* addThread gone wrong: only the thread that created the node is recorded
addThreadFirstOnly(node, thread) ==
    IF node.threadIds = <<>>
    THEN [node EXCEPT !.threadIds = <<thread.id>>,
                      !.threadNames = <<thread.name>>,
                      !.frame.threadIds = <<thread.id>>]
    ELSE node

\* addThread gone wrong: the name is pushed outside the guard on the id
addThreadNameUnguarded(node, thread) ==
    LET n1 == IF ~ArrIncludes(node.threadIds, thread.id)
              THEN [node EXCEPT !.threadIds = Append(@, thread.id),
                                !.threadNames = Append(@, thread.name)]
              ELSE [node EXCEPT !.threadNames = Append(@, thread.name)]
    IN  IF ~ArrIncludes(n1.frame.threadIds, thread.id)
        THEN [n1 EXCEPT !.frame.threadIds = Append(@, thread.id)]
        ELSE n1

\* addThread gone wrong: the push to frame.threadIds has no guard
addThreadFrameUnguarded(node, thread) ==
    LET n1 == IF ~ArrIncludes(node.threadIds, thread.id)
              THEN [node EXCEPT !.threadIds = Append(@, thread.id),
                                !.threadNames = Append(@, thread.name)]
              ELSE node
    IN  [n1 EXCEPT !.frame.threadIds = Append(@, thread.id)]

\* the two guarded pushes that record the thread in a node
addThread(node, thread) ==
    LET n1 == IF ~ArrIncludes(node.threadIds, thread.id)
              THEN [node EXCEPT !.threadIds = Append(@, thread.id),
                                !.threadNames = Append(@, thread.name)]
              ELSE node
    IN  IF ~ArrIncludes(n1.frame.threadIds, thread.id)
        THEN [n1 EXCEPT !.frame.threadIds = Append(@, thread.id)]
        ELSE n1

\* push gone wrong: the new node is put in front (unshift)
pushFront(arr, x) == <<x>> \o arr

\* Array.prototype.push(x)
push(arr, x) == Append(arr, x)

\* One iteration of `for (const frame of thread.frames)`.  L holds the
\* locals [nodes, rootNodes, currentLevelNodes]; the result adds `created`,
\* telling whether the iteration allocated a node.
processFrame(L, split, thread, frame) ==
    LET cid     == canonicalId(frame)
        level   == LevelOf(L.nodes, L.rootNodes, L.currentLevelNodes)
        found   == IF shouldSplit(split, cid) THEN 0
                   ELSE findNode(L.nodes, level, frame)
        isNew   == found = 0
        ref     == IF isNew THEN Len(L.nodes) + 1 ELSE found
        alloc   == IF isNew
                   THEN Append(L.nodes,
                               newNode(nodeIdFor(split, cid, thread), frame))
                   ELSE L.nodes
        \* currentLevelNodes.push(node)
        pushed  == IF isNew /\ L.currentLevelNodes # 0
                   THEN [alloc EXCEPT ![L.currentLevelNodes].children =
                                          push(@, ref)]
                   ELSE alloc
        roots   == IF isNew /\ L.currentLevelNodes = 0
                   THEN push(L.rootNodes, ref)
                   ELSE L.rootNodes
    IN  [nodes             |-> [pushed EXCEPT ![ref] = addThread(@, thread)],
         rootNodes         |-> roots,
         currentLevelNodes |-> ref,
         created           |-> isNew]

----------------------------------------------------------------------------
(* buildGraph as a function of its two arguments: the loops as recursion *)

RECURSIVE processFrames(_, _, _, _)
\* for (const frame of thread.frames), from the k-th frame on
processFrames(L, split, thread, k) ==
    IF k > Len(thread.frames) THEN L
    ELSE processFrames(processFrame(L, split, thread, thread.frames[k]),
                       split, thread, k + 1)

RECURSIVE processThreads(_, _, _, _)
\* for (const thread of threadsData), from the i-th thread on; each thread
\* starts with let currentLevelNodes = rootNodes
processThreads(L, split, T, i) ==
    IF i > Len(T) THEN L
    ELSE processThreads(
             processFrames([L EXCEPT !.currentLevelNodes = 0], split, T[i], 1),
             split, T, i + 1)

\* the forest a call returns when it starts from nothing
buildGraph(T, split) ==
    LET R == processThreads([nodes |-> <<>>, rootNodes |-> <<>>,
                             currentLevelNodes |-> 0], split, T, 1)
    IN  [nodes |-> R.nodes, rootNodes |-> R.rootNodes]

----------------------------------------------------------------------------
(* Inputs *)

NAME_A == <<"a">>
NAME_B == <<"b">>
PATH_M == <<"m">>

RawFrame(name, source, line, column) ==
    [name |-> name, source |-> source, line |-> line, column |-> column]

\* the reference call site: function a at m:1:1
FRAME_A == RawFrame(NAME_A, Source(PATH_M), 1, 1)
\* the same call site with no source at all
FRAME_A_NOSOURCE == RawFrame(NAME_A, NoSource, 1, 1)

\* Every snapshot draws its frames from one family: two frames that differ
\* in one respect.
Families ==
    {\* another function name, another line, another column
     {FRAME_A, RawFrame(NAME_B, Source(PATH_M), 1, 1)},
     {FRAME_A, RawFrame(NAME_A, Source(PATH_M), 10, 1)},
     {FRAME_A, RawFrame(NAME_A, Source(PATH_M), 1, 2)},
     \* a source path against none
     {FRAME_A, FRAME_A_NOSOURCE},
     \* no source against a source object that has no path
     {FRAME_A_NOSOURCE, RawFrame(NAME_A, SourceNoPath, 1, 1)},
     \* no source against the path "undefined" and against the empty path
     {FRAME_A_NOSOURCE, RawFrame(NAME_A, Source(UNDEFINED_TEXT), 1, 1)},
     {FRAME_A_NOSOURCE, RawFrame(NAME_A, Source(<<>>), 1, 1)},
     \* a function whose name is the text '::split::'
     {FRAME_A, RawFrame(SPLIT_MARK, Source(PATH_M), 1, 1)},
     {RawFrame(SPLIT_MARK, NoSource, 1, 1), RawFrame(SPLIT_MARK, Source(PATH_M), 1, 1)},
     \* a ':' in the path against a ':' in the name
     {RawFrame(NAME_A, Source(PATH_M \o COLON \o <<"1">>), 1, 1),
      RawFrame(<<"1">> \o COLON \o NAME_A, Source(PATH_M), 1, 1)}}

SeqsUpTo(S, k) == UNION {[1..n -> S] : n \in 0..k}

RECURSIVE StackLists(_, _, _)
\* the lists of n stacks over `fam` with at most `budget` frames in total
StackLists(fam, n, budget) ==
    IF n = 0 THEN {<<>>}
    ELSE UNION {{<<s>> \o rest : rest \in StackLists(fam, n - 1, budget - Len(s))}
                    : s \in SeqsUpTo(fam, budget)}

ThreadName(i) == <<"T">> \o NumberToString(i)

\* ThreadData entries: ids and names by position, DAP frame ids unique
MkThreads(stacks) ==
    [i \in 1..Len(stacks) |->
        [id     |-> i,
         name   |-> ThreadName(i),
         frames |-> [k \in 1..Len(stacks[i]) |->
                        [id     |-> 10 * i + k,
                         name   |-> stacks[i][k].name,
                         source |-> stacks[i][k].source,
                         line   |-> stacks[i][k].line,
                         column |-> stacks[i][k].column]]]]

Snapshots(fam) ==
    {MkThreads(st) : st \in UNION {StackLists(fam, n, MaxTotalFrames) : n \in 0..MaxThreads}}

SplitSets(fam) ==
    {S \in SUBSET {canonicalId(fr) : fr \in fam} : Cardinality(S) <= MaxSplit}

----------------------------------------------------------------------------
(* The caller's data: debug-adapter answers, promises, webview messages *)

\* Array.prototype.reverse()
Reverse(s) == [k \in 1..Len(s) |-> s[Len(s) + 1 - k]]

\* frames a debug adapter reports: function b further in, a call site whose
\* column is reported as 0, and a source object without a path
FRAME_B == RawFrame(NAME_B, Source(PATH_M), 10, 2)
FRAME_COLUMN_0 == RawFrame(NAME_B, Source(PATH_M), 1, 0)
FRAME_NOPATH == RawFrame(NAME_A, SourceNoPath, 1, 1)

\* the stackFrames arrays of a stackTrace response, innermost frame first
AdapterTraces ==
    {<<>>,
     <<FRAME_A>>,
     <<FRAME_B, FRAME_A>>,
     <<FRAME_COLUMN_0, FRAME_A>>,
     <<FRAME_A_NOSOURCE, FRAME_A>>,
     <<FRAME_NOPATH>>}

\* what the debug target does with one stackTrace request: it answers with
\* stackFrames, answers without them, rejects, or never answers
StackTraceAnswers ==
    [kind : {"stackFrames"}, stackFrames : AdapterTraces]
        \cup {[kind |-> k, stackFrames |-> <<>>]
                : k \in {"noStackFrames", "rejects", "never"}}

\* the frames of thread i's answer with the adapter's frame ids
WithFrameIds(i, answer) ==
    [answer EXCEPT !.stackFrames =
        [k \in 1..Len(@) |->
            [id     |-> 10 * i + k,
             name   |-> @[k].name,
             source |-> @[k].source,
             line   |-> @[k].line,
             column |-> @[k].column]]]

\* a promise of threadDataPromises before it settles
PendingPromise(thread) ==
    [settled |-> FALSE, rejected |-> FALSE,
     id |-> thread.id, name |-> thread.name, frames |-> <<>>]

\* threadData gone wrong: the catch rethrows, the promise rejects
threadDataRethrowing(thread, answer) ==
    [settled |-> TRUE, rejected |-> answer.kind = "rejects",
     id |-> thread.id, name |-> thread.name,
     frames |-> IF answer.kind = "stackFrames"
                THEN Reverse(answer.stackFrames) ELSE <<>>]

\* threadData gone wrong: the stack frames are not reversed
threadDataUnreversed(thread, answer) ==
    [settled |-> TRUE, rejected |-> FALSE,
     id |-> thread.id, name |-> thread.name,
     frames |-> IF answer.kind = "stackFrames"
                THEN answer.stackFrames ELSE <<>>]

\* the async callback of threads.map once its stackTrace request is
\* answered: frames reversed, or [] when the response has no stackFrames or
\* the request rejected; the promise always fulfils
threadData(thread, answer) ==
    [settled |-> TRUE, rejected |-> FALSE,
     id |-> thread.id, name |-> thread.name,
     frames |-> IF answer.kind = "stackFrames"
                THEN Reverse(answer.stackFrames) ELSE <<>>]

\* const threadsData: ThreadData[] = await Promise.all(threadDataPromises)
Fulfilled(promises) ==
    [i \in 1..Len(promises) |->
        [id |-> promises[i].id, name |-> promises[i].name,
         frames |-> promises[i].frames]]

\* return []
EMPTY_GRAPH == [nodes |-> <<>>, rootNodes |-> <<>>]

\* the messages _updateGraph posts to the webview
ErrorMessage(text) == [command |-> "error", text |-> text, data |-> EMPTY_GRAPH]
UpdateGraphMessage(graphData) ==
    [command |-> "updateGraph", text |-> "", data |-> graphData]

\* the requests a refresh sends to the debug target
ThreadsRequest == [command |-> "threads", threadId |-> 0]
StackTraceRequest(thread) == [command |-> "stackTrace", threadId |-> thread.id]

\* the invocations a refresh makes
GetStackGraphCall == [fn |-> "getStackGraph", threadsData |-> <<>>]
BuildGraphCall(T) == [fn |-> "buildGraph", threadsData |-> T]

\* the editor before any 'openFile' message is handled; `message` is the
\* message last handled
NoEditor ==
    [handled |-> FALSE,
     message |-> [source |-> NoSource, line |-> 0, column |-> 0],
     opened |-> FALSE, document |-> <<>>,
     selected |-> FALSE, line |-> 0, character |-> 0, failed |-> FALSE]

\* the editor when the handler has taken the message and done nothing yet
Handling(source, line, column) ==
    [NoEditor EXCEPT !.handled = TRUE,
                     !.message = [source |-> source, line |-> line,
                                  column |-> column]]

\* openFile gone wrong: the position is taken as it comes, 1-based
openFileUnconverted(source, line, column, found) ==
    IF ~source.present \/ ~source.hasPath \/ source.path = <<>>
    THEN Handling(source, line, column)
    ELSE IF ~found
    THEN [Handling(source, line, column) EXCEPT !.failed = TRUE]
    ELSE IF line < 0 \/ column < 0
    THEN [Handling(source, line, column) EXCEPT
             !.opened = TRUE, !.document = source.path, !.failed = TRUE]
    ELSE [Handling(source, line, column) EXCEPT
             !.opened = TRUE, !.document = source.path, !.selected = TRUE,
             !.line = line, !.character = column]

\* _openFile(source, line, column); `found` tells whether openTextDocument
\* and showTextDocument succeed.  new vscode.Position throws on a negative
\* line or character, which the catch turns into an error message.
openFile(source, line, column, found) ==
    IF ~source.present \/ ~source.hasPath \/ source.path = <<>>
    THEN Handling(source, line, column)
    ELSE IF ~found
    THEN [Handling(source, line, column) EXCEPT !.failed = TRUE]
    ELSE IF line - 1 < 0 \/ column - 1 < 0
    THEN [Handling(source, line, column) EXCEPT
             !.opened = TRUE, !.document = source.path, !.failed = TRUE]
    ELSE [Handling(source, line, column) EXCEPT
             !.opened = TRUE, !.document = source.path, !.selected = TRUE,
             !.line = line - 1, !.character = column - 1]

----------------------------------------------------------------------------
(* The state machine *)

Init ==
    /\ pc = "idle"
    /\ threadsData = <<>>
    /\ splitNodes = {}
    /\ nodes = <<>>
    /\ rootNodes = <<>>
    /\ t = 1
    /\ f = 1
    /\ currentLevelNodes = 0
    /\ walk = <<>>
    /\ made = <<>>
    /\ later = FALSE
    /\ ppc = "ready"
    /\ threads = <<>>
    /\ adapter = <<>>
    /\ threadDataPromises = <<>>
    /\ order = <<>>
    /\ sent = <<>>
    /\ calls = <<>>
    /\ posted = <<>>
    /\ editor = NoEditor
    /\ currentPanel = 0
    /\ panels = <<>>

\* Enter gone wrong: rootNodes lives outside the function and is not emptied
EnterKeepingForest(T, S) ==
    /\ pc' = "loop"
    /\ threadsData' = T
    /\ splitNodes' = S
    /\ nodes' = nodes
    /\ rootNodes' = rootNodes
    /\ t' = 1
    /\ f' = 1
    /\ currentLevelNodes' = 0
    /\ walk' = [i \in 1..Len(T) |-> <<>>]
    /\ made' = [i \in 1..Len(T) |-> <<>>]
    /\ UNCHANGED <<panelVars, hostVars>>

\* buildGraph(threadsData, splitNodes) is entered: const rootNodes = []
Enter(T, S) ==
    /\ pc' = "loop"
    /\ threadsData' = T
    /\ splitNodes' = S
    /\ nodes' = <<>>
    /\ rootNodes' = <<>>
    /\ t' = 1
    /\ f' = 1
    /\ currentLevelNodes' = 0
    /\ walk' = [i \in 1..Len(T) |-> <<>>]
    /\ made' = [i \in 1..Len(T) |-> <<>>]
    /\ UNCHANGED <<panelVars, hostVars>>

\* the first call of a run, with any snapshot and split set
Call ==
    /\ pc = "idle"
    /\ later' = FALSE
    /\ \E fam \in Families : \E T \in Snapshots(fam) : \E S \in SplitSets(fam) :
          Enter(T, S)

\* the arguments tried after a call with (T, S) has returned: the same again,
\* the same snapshot under every other split set, and the snapshot without
\* its first or its last thread
LaterArgs(T, S) ==
    LET ids == UNION {{canonicalId(T[i].frames[k]) : k \in 1..Len(T[i].frames)}
                      : i \in 1..Len(T)}
    IN  {<<T, S2>> : S2 \in {X \in SUBSET ids : Cardinality(X) <= MaxSplit}}
        \cup {<<T, S>>}
        \cup (IF Len(T) = 0 THEN {}
              ELSE {<<SubSeq(T, 1, Len(T) - 1), S>>, <<Tail(T), S>>})

\* a later call, made after an earlier one has returned
CallAgain ==
    /\ pc = "returned"
    /\ later' = TRUE
    /\ \E a \in LaterArgs(threadsData, splitNodes) : Enter(a[1], a[2])

\* one iteration of the inner loop
ProcessFrame ==
    /\ pc = "loop"
    /\ t <= Len(threadsData)
    /\ f <= Len(threadsData[t].frames)
    /\ LET L == [nodes |-> nodes, rootNodes |-> rootNodes,
                 currentLevelNodes |-> currentLevelNodes]
           R == processFrame(L, splitNodes, threadsData[t], threadsData[t].frames[f])
       IN  /\ nodes' = R.nodes
           /\ rootNodes' = R.rootNodes
           /\ currentLevelNodes' = R.currentLevelNodes
           /\ walk' = [walk EXCEPT ![t] = Append(@, R.currentLevelNodes)]
           /\ made' = [made EXCEPT ![t] =
                          IF R.created THEN Append(@, R.currentLevelNodes) ELSE @]
    /\ f' = f + 1
    /\ UNCHANGED <<pc, threadsData, splitNodes, t, later>>
    /\ UNCHANGED <<panelVars, hostVars>>

\* NextThread gone wrong: a thread without frames leaves a placeholder root
NextThreadWithPlaceholder ==
    /\ pc = "loop"
    /\ t <= Len(threadsData)
    /\ f > Len(threadsData[t].frames)
    /\ t' = t + 1
    /\ f' = 1
    /\ currentLevelNodes' = 0
    /\ IF Len(threadsData[t].frames) = 0
       THEN /\ nodes' = Append(nodes,
                   addThread(newNode(<<>>, [id |-> 0, name |-> <<>>,
                                            source |-> NoSource,
                                            line |-> 0, column |-> 0]),
                             threadsData[t]))
            /\ rootNodes' = Append(rootNodes, Len(nodes) + 1)
       ELSE UNCHANGED <<nodes, rootNodes>>
    /\ UNCHANGED <<pc, threadsData, splitNodes, walk, made, later>>
    /\ UNCHANGED <<panelVars, hostVars>>

\* the inner loop is exhausted: next thread, let currentLevelNodes = rootNodes
NextThread ==
    /\ pc = "loop"
    /\ t <= Len(threadsData)
    /\ f > Len(threadsData[t].frames)
    /\ t' = t + 1
    /\ f' = 1
    /\ currentLevelNodes' = 0
    /\ UNCHANGED <<pc, threadsData, splitNodes, nodes, rootNodes, walk, made, later>>
    /\ UNCHANGED <<panelVars, hostVars>>

\* the outer loop is exhausted: return rootNodes
Return ==
    /\ pc = "loop"
    /\ t > Len(threadsData)
    /\ pc' = "returned"
    /\ UNCHANGED <<threadsData, splitNodes, nodes, rootNodes, t, f,
                   currentLevelNodes, walk, made, later>>
    /\ UNCHANGED <<panelVars, hostVars>>

Next ==
    \/ Call
    \/ CallAgain
    \/ ProcessFrame
    \/ NextThread
    \/ Return

Spec == Init /\ [][Next]_vars

----------------------------------------------------------------------------
(* Snapshots whose entries may carry the same thread id *)

\* the id lists of n entries: the first entry has id 1, every other entry
\* any id of 1..n, so that ids repeat or not
IdLists(n) == {ids \in [1..n -> 1..n] : n > 0 => ids[1] = 1}

\* the snapshot T with the given ids; names and frame ids stay by position
WithIds(T, ids) == [i \in 1..Len(T) |-> [T[i] EXCEPT !.id = ids[i]]]

\* the frames of these snapshots: function a and function b at m:1:1
FramesByName == {FRAME_A, RawFrame(NAME_B, Source(PATH_M), 1, 1)}

\* a call with any snapshot over FramesByName, any id list and split set
CallWithIds ==
    /\ pc = "idle"
    /\ later' = FALSE
    /\ \E T \in Snapshots(FramesByName) : \E ids \in IdLists(Len(T)) :
          \E S \in SplitSets(FramesByName) : Enter(WithIds(T, ids), S)

IdsNext ==
    \/ CallWithIds
    \/ ProcessFrame
    \/ NextThread
    \/ Return

IdsSpec == Init /\ [][IdsNext]_vars

\* one call of buildGraph from construction, with any snapshot of distinct
\* thread ids and any split set
OnceNext ==
    \/ Call
    \/ ProcessFrame
    \/ NextThread
    \/ Return

OnceSpec == Init /\ [][OnceNext]_vars

----------------------------------------------------------------------------
(* The panel: a 'refresh' message runs _updateGraph, which awaits          *)
(* getStackGraph; an 'openFile' message runs _openFile.  One refresh is    *)
(* followed from its message to its post; the logs `sent`, `calls` and     *)
(* `posted` are those of the refresh under way or just finished.           *)

\* RefreshWithoutSession gone wrong: the `return` after the post is missing
RefreshWithoutSessionGoingOn ==
    /\ ppc = "ready"
    /\ ppc' = "threads"
    /\ posted' = <<ErrorMessage("No active debug session")>>
    /\ calls' = <<GetStackGraphCall>>
    /\ sent' = <<ThreadsRequest>>
    /\ threads' = <<>>
    /\ adapter' = <<>>
    /\ threadDataPromises' = <<>>
    /\ order' = <<>>
    /\ editor' = NoEditor
    /\ UNCHANGED <<graphVars, hostVars>>

\* 'refresh' while vscode.debug.activeDebugSession is undefined
RefreshWithoutSession ==
    /\ ppc = "ready"
    /\ posted' = <<ErrorMessage("No active debug session")>>
    /\ threads' = <<>>
    /\ adapter' = <<>>
    /\ threadDataPromises' = <<>>
    /\ order' = <<>>
    /\ sent' = <<>>
    /\ calls' = <<>>
    /\ editor' = NoEditor
    /\ UNCHANGED ppc
    /\ UNCHANGED <<graphVars, hostVars>>

\* 'refresh' with a session: getStackGraph(session) sends 'threads'
RefreshWithSession ==
    /\ ppc = "ready"
    /\ ppc' = "threads"
    /\ calls' = <<GetStackGraphCall>>
    /\ sent' = <<ThreadsRequest>>
    /\ posted' = <<>>
    /\ threads' = <<>>
    /\ adapter' = <<>>
    /\ threadDataPromises' = <<>>
    /\ order' = <<>>
    /\ editor' = NoEditor
    /\ UNCHANGED <<graphVars, hostVars>>

\* the 'threads' request rejects: the outer catch rethrows, _updateGraph
\* posts the error
ThreadsRejects ==
    /\ ppc = "threads"
    /\ ppc' = "ready"
    /\ posted' = Append(posted, ErrorMessage("threads request rejected"))
    /\ UNCHANGED <<threads, adapter, threadDataPromises, order, sent, calls, editor>>
    /\ UNCHANGED <<graphVars, hostVars>>

\* ThreadsWithoutList gone wrong: a missing list is taken as an empty one
ThreadsWithoutListAsEmpty ==
    /\ ppc = "threads"
    /\ ppc' = "ready"
    /\ posted' = Append(posted, UpdateGraphMessage(EMPTY_GRAPH))
    /\ UNCHANGED <<threads, adapter, threadDataPromises, order, sent, calls, editor>>
    /\ UNCHANGED <<graphVars, hostVars>>

\* the response has no threads list: throw new Error("Invalid threads
\* response: ...")
ThreadsWithoutList ==
    /\ ppc = "threads"
    /\ ppc' = "ready"
    /\ posted' = Append(posted, ErrorMessage("Invalid threads response"))
    /\ UNCHANGED <<threads, adapter, threadDataPromises, order, sent, calls, editor>>
    /\ UNCHANGED <<graphVars, hostVars>>

\* threads.length === 0: return [] without building
ThreadsEmpty ==
    /\ ppc = "threads"
    /\ ppc' = "ready"
    /\ posted' = Append(posted, UpdateGraphMessage(EMPTY_GRAPH))
    /\ UNCHANGED <<threads, adapter, threadDataPromises, order, sent, calls, editor>>
    /\ UNCHANGED <<graphVars, hostVars>>

\* the response lists n threads: threads.map sends one stackTrace request
\* per thread, in list order, before any of them is answered
ThreadsListed ==
    /\ ppc = "threads"
    /\ ppc' = "traces"
    /\ \E n \in 1..MaxThreads : \E answers \in [1..n -> StackTraceAnswers] :
          LET list == [i \in 1..n |-> [id |-> i, name |-> ThreadName(i)]]
          IN  /\ threads' = list
              /\ adapter' = [i \in 1..n |-> WithFrameIds(i, answers[i])]
              /\ threadDataPromises' = [i \in 1..n |-> PendingPromise(list[i])]
              /\ sent' = sent \o [i \in 1..n |-> StackTraceRequest(list[i])]
    /\ UNCHANGED <<order, calls, posted, editor>>
    /\ UNCHANGED <<graphVars, hostVars>>

\* one stackTrace request is answered or rejects; its promise settles
StackTraceSettles ==
    /\ ppc = "traces"
    /\ \E i \in 1..Len(threads) :
          /\ ~threadDataPromises[i].settled
          /\ adapter[i].kind # "never"
          /\ threadDataPromises' =
                [threadDataPromises EXCEPT ![i] = threadData(threads[i], adapter[i])]
          /\ order' = Append(order, i)
    /\ UNCHANGED <<ppc, threads, adapter, sent, calls, posted, editor>>
    /\ UNCHANGED <<graphVars, hostVars>>

\* await Promise.all(threadDataPromises) resumes: buildGraph(threadsData,
\* splitNodes) with the default splitNodes = [], and the graph is posted; a
\* rejected promise would take the outer catch instead
PromiseAll ==
    /\ ppc = "traces"
    /\ \A i \in 1..Len(threads) : threadDataPromises[i].settled
    /\ ppc' = "ready"
    /\ IF \E i \in 1..Len(threads) : threadDataPromises[i].rejected
       THEN /\ posted' = Append(posted, ErrorMessage("stackTrace request rejected"))
            /\ UNCHANGED calls
       ELSE /\ calls' = Append(calls, BuildGraphCall(Fulfilled(threadDataPromises)))
            /\ posted' = Append(posted,
                  UpdateGraphMessage(buildGraph(Fulfilled(threadDataPromises), {})))
    /\ UNCHANGED <<threads, adapter, threadDataPromises, order, sent, editor>>
    /\ UNCHANGED <<graphVars, hostVars>>

\* the frames of the nodes of the graph the webview was last sent
ShownFrames ==
    UNION {{posted[m].data.nodes[n].frame : n \in 1..Len(posted[m].data.nodes)}
            : m \in {k \in 1..Len(posted) : posted[k].command = "updateGraph"}}

\* a click on a node: 'openFile' with the node's frame.source, line, column
OpenFile ==
    /\ ppc = "ready"
    /\ \E frame \in ShownFrames : \E found \in BOOLEAN :
          editor' = openFile(frame.source, frame.line, frame.column, found)
    /\ UNCHANGED <<ppc, threads, adapter, threadDataPromises, order, sent, calls, posted>>
    /\ UNCHANGED <<graphVars, hostVars>>

PanelNext ==
    \/ RefreshWithoutSession
    \/ RefreshWithSession
    \/ ThreadsRejects
    \/ ThreadsWithoutList
    \/ ThreadsEmpty
    \/ ThreadsListed
    \/ StackTraceSettles
    \/ PromiseAll
    \/ OpenFile

PanelSpec == Init /\ [][PanelNext]_vars

----------------------------------------------------------------------------
(* The panel objects: the command 'parallel-stacks.show' runs createOrShow, *)
(* and a webview panel that is closed fires onDidDispose, whose listener   *)
(* runs dispose() on the panel object.  A panel object is an index into    *)
(* `panels`; 0 stands for undefined.                                       *)

\* vscode.window.activeTextEditor?.viewColumn: 0 for undefined
ViewColumns == {0, 1, 2}

\* new ParallelStacksPanel(panel, extensionUri) on a webview panel created
\* in `column || vscode.ViewColumn.One`; the constructor registers the
\* onDidDispose and onDidReceiveMessage listeners in _disposables
NewPanel(column) ==
    [column      |-> IF column = 0 THEN 1 ELSE column,
     revealed    |-> [done |-> FALSE, column |-> 0],
     disposed    |-> FALSE,
     disposables |-> 2]

\* the panel objects whose webview panel is not disposed
LivePanels == {p \in 1..Len(panels) : ~panels[p].disposed}

\* createOrShow gone wrong: the test on currentPanel is missing
CreateOrShowAlways ==
    /\ Len(panels) < MaxPanels
    /\ \E column \in ViewColumns :
          /\ panels' = Append(panels, NewPanel(column))
          /\ currentPanel' = Len(panels) + 1
    /\ UNCHANGED <<graphVars, panelVars>>

\* ParallelStacksPanel.createOrShow(extensionUri): reveal the current panel
\* if there is one, else create a panel and make it current
CreateOrShow ==
    /\ \E column \in ViewColumns :
          IF currentPanel # 0
          THEN /\ panels' = [panels EXCEPT ![currentPanel].revealed =
                                [done |-> TRUE, column |-> column]]
               /\ UNCHANGED currentPanel
          ELSE /\ Len(panels) < MaxPanels
               /\ panels' = Append(panels, NewPanel(column))
               /\ currentPanel' = Len(panels) + 1
    /\ UNCHANGED <<graphVars, panelVars>>

\* Dispose gone wrong: currentPanel is not cleared
DisposeKeepingCurrent ==
    /\ \E p \in LivePanels :
          panels' = [panels EXCEPT ![p].disposed = TRUE, ![p].disposables = 0]
    /\ UNCHANGED currentPanel
    /\ UNCHANGED <<graphVars, panelVars>>

\* a live webview panel is closed; its onDidDispose listener runs dispose():
\* currentPanel = undefined, this._panel.dispose(), every disposable popped
Dispose ==
    /\ \E p \in LivePanels :
          panels' = [panels EXCEPT ![p].disposed = TRUE, ![p].disposables = 0]
    /\ currentPanel' = 0
    /\ UNCHANGED <<graphVars, panelVars>>

SingletonNext ==
    \/ CreateOrShow
    \/ Dispose

SingletonSpec == Init /\ [][SingletonNext]_vars

----------------------------------------------------------------------------
(* Reading the forest *)

Elems(seq) == {seq[i] : i \in 1..Len(seq)}

NodeRefs == 1..Len(nodes)

Returned == pc = "returned"

\* the sibling lists of the forest: the root list and every children array
SiblingLists == {rootNodes} \cup {nodes[n].children : n \in NodeRefs}

\* the node whose children array holds n; 0 for a root
ParentOf(n) ==
    IF n \in Elems(rootNodes) THEN 0
    ELSE CHOOSE p \in NodeRefs : n \in Elems(nodes[p].children)

RECURSIVE ChainTo(_)
\* the root-to-node chain of n
ChainTo(n) == IF n = 0 THEN <<>> ELSE Append(ChainTo(ParentOf(n)), n)

IsPrefix(a, b) == Len(a) <= Len(b) /\ SubSeq(b, 1, Len(a)) = a

\* thread i's frame sequence, walked from the root list, passes through the
\* root-to-node chain of n
PassesThrough(i, n) == IsPrefix(ChainTo(n), walk[i])

ThreadRefs == 1..Len(threadsData)

FramesOf(i) == threadsData[i].frames

\* the k-th frame of thread i is subject to the split directive
SplitAt(i, k) == canonicalId(FramesOf(i)[k]) \in splitNodes

\* the identity the claims speak of: path (absent is a value of its own),
\* line, column and function name
FrameTuple(fr) == <<SourcePath(fr), fr.line, fr.column, fr.name>>

\* threads i and j have the same frame at every depth
IdenticalStacks(i, j) ==
    /\ Len(FramesOf(i)) = Len(FramesOf(j))
    /\ \A k \in 1..Len(FramesOf(i)) :
          FrameTuple(FramesOf(i)[k]) = FrameTuple(FramesOf(j)[k])

\* the ids of all threads of the snapshot
AllThreadIds == {threadsData[i].id : i \in ThreadRefs}

\* the sibling list thread i's cursor designates at depth k
LevelAt(i, k) == LevelOf(nodes, rootNodes, IF k = 1 THEN 0 ELSE walk[i][k - 1])

\* no frame of the snapshot has the text '::split::' in its canonical id
NoMarkerInFrames ==
    \A i \in ThreadRefs : \A k \in 1..Len(FramesOf(i)) :
        ~StrIncludes(canonicalId(FramesOf(i)[k]), SPLIT_MARK)

\* the walk of thread i is a chain of the forest that follows its frames
WalkFollowsFrames(i) ==
    /\ Len(walk[i]) = Len(FramesOf(i))
    /\ \A k \in 1..Len(walk[i]) :
          /\ walk[i][k] \in Elems(LevelOf(nodes, rootNodes,
                                          IF k = 1 THEN 0 ELSE walk[i][k - 1]))
          /\ isSameFrame(nodes[walk[i][k]].frame, FramesOf(i)[k])

----------------------------------------------------------------------------
(* C1 *)

\* C1: after buildGraph returns, every thread's walk is a root-to-node chain
\* of the forest that follows the thread's frames, and the set of ids in a
\* node's threadIds is exactly the set of ids of the threads whose walk
\* passes through the node's root-to-node chain.
C1_ThreadIdsAreThePassingThreads ==
    Returned =>
        /\ \A i \in ThreadRefs : WalkFollowsFrames(i)
        /\ \A n \in NodeRefs :
              Elems(nodes[n].threadIds) =
                  {threadsData[i].id : i \in {j \in ThreadRefs : PassesThrough(j, n)}}

\* a returned forest with a node shared by two threads above a node that
\* only one of them reaches
C1_Witness ==
    /\ Returned
    /\ \E n, m \in NodeRefs :
          /\ ParentOf(m) = n
          /\ Cardinality(Elems(nodes[n].threadIds)) = 2
          /\ Cardinality(Elems(nodes[m].threadIds)) = 1

----------------------------------------------------------------------------
(* C2 *)

\* the node was created for a frame whose canonical id is not in splitIds
\* (node.frame copies the fields of the frame that created the node)
NonSplitNode(n) == canonicalId(nodes[n].frame) \notin splitNodes

\* C2: in the returned forest no sibling list holds two nodes, both created
\* for frames outside splitIds, with the same path, line, column and name.
C2_NoDuplicateNonSplitSiblings ==
    Returned =>
        \A level \in SiblingLists :
            \A x, y \in 1..Len(level) :
                ( /\ x # y
                  /\ NonSplitNode(level[x])
                  /\ NonSplitNode(level[y]) )
                => FrameTuple(nodes[level[x]].frame) # FrameTuple(nodes[level[y]].frame)

----------------------------------------------------------------------------
(* C3 *)

FullMergeCase ==
    /\ Returned
    /\ splitNodes = {}
    /\ ThreadRefs # {}
    /\ Len(FramesOf(1)) >= 1
    /\ \A i \in ThreadRefs : IdenticalStacks(1, i)

RECURSIVE IsChainOf(_, _)
\* `level` starts a chain of exactly len nodes, one per depth, each listing
\* every thread
IsChainOf(level, len) ==
    /\ Len(level) = 1
    /\ Elems(nodes[level[1]].threadIds) = AllThreadIds
    /\ IF len = 1 THEN nodes[level[1]].children = <<>>
       ELSE IsChainOf(nodes[level[1]].children, len - 1)

\* C3: threads with identical frame sequences and an empty split set give
\* one root and one chain as long as the sequence, every node of which
\* lists all the threads.
C3_FullMerge ==
    FullMergeCase =>
        /\ Len(nodes) = Len(FramesOf(1))
        /\ IsChainOf(rootNodes, Len(FramesOf(1)))

\* C3 outside the defect of C2: the same statement for snapshots none of
\* whose canonical ids contains '::split::'
C3_FullMergeWithoutMarker ==
    (FullMergeCase /\ NoMarkerInFrames) =>
        /\ Len(nodes) = Len(FramesOf(1))
        /\ IsChainOf(rootNodes, Len(FramesOf(1)))

----------------------------------------------------------------------------
(* C4 *)

\* the two threads agree on depths 1..k-1 and differ at depth k
DivergeAt(k) ==
    /\ Len(threadsData) = 2
    /\ k <= Len(FramesOf(1))
    /\ k <= Len(FramesOf(2))
    /\ \A j \in 1..(k - 1) : FrameTuple(FramesOf(1)[j]) = FrameTuple(FramesOf(2)[j])
    /\ FrameTuple(FramesOf(1)[k]) # FrameTuple(FramesOf(2)[k])

\* a single shared chain on depths 1..k-1, then two siblings at depth k
DivergedForest(k) ==
    /\ \A j \in 1..(k - 1) :
          /\ LevelAt(1, j) = <<walk[1][j]>>
          /\ walk[2][j] = walk[1][j]
          /\ Elems(nodes[walk[1][j]].threadIds) = AllThreadIds
    /\ LevelAt(1, k) = <<walk[1][k], walk[2][k]>>
    /\ walk[1][k] # walk[2][k]
    /\ nodes[walk[1][k]].threadIds = <<threadsData[1].id>>
    /\ nodes[walk[2][k]].threadIds = <<threadsData[2].id>>

\* C4: two threads that share depths 1..k-1 and differ at depth k (empty
\* split set) share one chain down to depth k-1, whose last node has exactly
\* two children, each listing its own thread only.
C4_Divergence ==
    (Returned /\ splitNodes = {}) =>
        \A k \in 1..MaxTotalFrames : DivergeAt(k) => DivergedForest(k)

\* C4 outside the defect of C2
C4_DivergenceWithoutMarker ==
    (Returned /\ splitNodes = {} /\ NoMarkerInFrames) =>
        \A k \in 1..MaxTotalFrames : DivergeAt(k) => DivergedForest(k)

----------------------------------------------------------------------------
(* C5 *)

\* C5: every processed frame whose canonical id is in splitIds got a node
\* created for it by its own thread, with the id canonicalId::split::threadId
\* and that thread as its only member; two threads split at the same depth
\* have two different nodes there.
C5_SplitEnforcement ==
    \A i \in ThreadRefs : \A k \in 1..Len(walk[i]) :
        SplitAt(i, k) =>
            /\ walk[i][k] \in Elems(made[i])
            /\ nodes[walk[i][k]].id =
                   canonicalId(FramesOf(i)[k]) \o SPLIT_MARK
                       \o NumberToString(threadsData[i].id)
            /\ nodes[walk[i][k]].threadIds = <<threadsData[i].id>>
            /\ \A j \in ThreadRefs \ {i} :
                   k <= Len(walk[j]) => walk[j][k] # walk[i][k]

\* two threads with identical stacks, split at depth 2 below a shared root
C5_Witness ==
    /\ Returned
    /\ Len(threadsData) = 2
    /\ IdenticalStacks(1, 2)
    /\ Len(FramesOf(1)) = 2
    /\ ~SplitAt(1, 1)
    /\ SplitAt(1, 2)
    /\ walk[1][1] = walk[2][1]
    /\ walk[1][2] # walk[2][2]

----------------------------------------------------------------------------
(* C6 *)

\* the nodes strictly below n
Descendants(n) == {m \in NodeRefs \ {n} : n \in Elems(ChainTo(m))}

\* C6: in the returned forest every node below a node created under a split
\* lists the owning thread only; the owner's deeper frames all lie below
\* that node, and those not in splitIds have the plain canonical id.
C6_NoReconvergenceBelowSplit ==
    Returned =>
        \A i \in ThreadRefs : \A k \in 1..Len(walk[i]) :
            SplitAt(i, k) =>
                /\ \A m \in Descendants(walk[i][k]) :
                       nodes[m].threadIds = <<threadsData[i].id>>
                /\ \A j \in (k + 1)..Len(walk[i]) :
                       /\ walk[i][j] \in Descendants(walk[i][k])
                       /\ ~SplitAt(i, j) =>
                              nodes[walk[i][j]].id = canonicalId(FramesOf(i)[j])

\* two threads with identical stacks, split at depth 1, with an unsplit
\* frame at depth 2: two separate nodes for the same frame
C6_Witness ==
    /\ Returned
    /\ Len(threadsData) = 2
    /\ IdenticalStacks(1, 2)
    /\ Len(FramesOf(1)) = 2
    /\ SplitAt(1, 1)
    /\ ~SplitAt(1, 2)
    /\ walk[1][2] # walk[2][2]
    /\ nodes[walk[1][2]].id = nodes[walk[2][2]].id

----------------------------------------------------------------------------
(* C7 *)

\* the frames of the snapshot and the representative frames of the forest
KnownFrames ==
    UNION {Elems(FramesOf(i)) : i \in ThreadRefs}
        \cup {nodes[n].frame : n \in NodeRefs}

\* (source path, or the empty string if absent; line; column; name)
NormalizedTuple(fr) ==
    <<IF SourcePath(fr).defined THEN SourcePath(fr).value ELSE <<>>,
      fr.line, fr.column, fr.name>>

\* C7: for all frames a and b, isSameFrame(a, b) holds exactly when their
\* canonical id strings are equal, and exactly when their tuples (path or
\* empty string, line, column, name) are equal.
C7_FrameIdentityConsistent ==
    \A a, b \in KnownFrames :
        /\ isSameFrame(a, b) <=> (canonicalId(a) = canonicalId(b))
        /\ isSameFrame(a, b) <=> (NormalizedTuple(a) = NormalizedTuple(b))

\* the part of C7 the code keeps: frames the matcher equates have equal
\* canonical ids and equal tuples
C7_SameFrameGivesSameId ==
    \A a, b \in KnownFrames :
        isSameFrame(a, b) =>
            /\ canonicalId(a) = canonicalId(b)
            /\ NormalizedTuple(a) = NormalizedTuple(b)

----------------------------------------------------------------------------
(* C8 *)

\* threads i and j are at the same position of the forest before depth k
SamePosition(i, j, k) ==
    /\ k <= Len(walk[i])
    /\ k <= Len(walk[j])
    /\ k = 1 \/ walk[i][k - 1] = walk[j][k - 1]

SameNameLineColumn(a, b) ==
    a.name = b.name /\ a.line = b.line /\ a.column = b.column

PathNormalization ==
    \A i, j \in ThreadRefs : \A k \in 1..MaxTotalFrames :
        (SamePosition(i, j, k) /\ SameNameLineColumn(FramesOf(i)[k], FramesOf(j)[k])) =>
            LET pi == SourcePath(FramesOf(i)[k])
                pj == SourcePath(FramesOf(j)[k])
            IN  /\ (~pi.defined /\ ~pj.defined) => walk[i][k] = walk[j][k]
                /\ (~pi.defined /\ pj.defined) =>
                       /\ walk[i][k] # walk[j][k]
                       /\ {walk[i][k], walk[j][k]} \subseteq Elems(LevelAt(i, k))

\* C8: at the same position two frames without a source path and with the
\* same name, line and column share one node, while a frame without a path
\* and an otherwise identical frame with a path get two sibling nodes.
\* (Stated for the empty split set, where nothing but frame identity
\* decides the merge.)
C8_PathNormalization ==
    (Returned /\ splitNodes = {}) => PathNormalization

\* C8 outside the defect of C2
C8_PathNormalizationWithoutMarker ==
    (Returned /\ splitNodes = {} /\ NoMarkerInFrames) => PathNormalization

----------------------------------------------------------------------------
(* C9 *)

\* the forest held by the running call
Forest == [nodes |-> nodes, rootNodes |-> rootNodes]

\* C9: whatever calls came before, the forest a call returns is the forest
\* buildGraph computes from nothing but its two arguments.
C9_ResultDependsOnArgumentsOnly ==
    Returned => Forest = buildGraph(threadsData, splitNodes)

\* a later call that has returned a forest with a split node in it
C9_Witness ==
    /\ Returned
    /\ later
    /\ splitNodes # {}
    /\ \E n \in NodeRefs : ~NonSplitNode(n)

----------------------------------------------------------------------------
(* C10 *)

HasFrames(thread) == Len(thread.frames) > 0

\* C10: the returned forest is the forest of the snapshot without its
\* empty-frame threads, every id a node lists is the id of a thread that has
\* frames, and a snapshot without any frame gives the empty forest.
C10_EmptyThreadsContributeNothing ==
    Returned =>
        /\ Forest = buildGraph(SelectSeq(threadsData, HasFrames), splitNodes)
        /\ \A n \in NodeRefs :
               Elems(nodes[n].threadIds) \subseteq
                   {threadsData[i].id : i \in {j \in ThreadRefs : HasFrames(threadsData[j])}}
        /\ (\A i \in ThreadRefs : ~HasFrames(threadsData[i])) =>
               (rootNodes = <<>> /\ nodes = <<>>)

\* an empty-frame thread ahead of a thread that builds a forest
C10_Witness ==
    /\ Returned
    /\ Len(threadsData) >= 2
    /\ ~HasFrames(threadsData[1])
    /\ HasFrames(threadsData[2])
    /\ Len(nodes) >= 2

----------------------------------------------------------------------------
(* C11 *)

\* the identities of the outermost frames of the threads that have frames
FirstFrameIdentities ==
    {FrameTuple(FramesOf(i)[1]) : i \in {j \in ThreadRefs : HasFrames(threadsData[j])}}

\* C11: the returned root list holds one root per distinct identity of a
\* first frame: as many roots as distinct first-frame identities.
\* (Stated for the empty split set; under a split set every thread whose
\* first frame is in splitIds gets a root of its own.)
C11_OneRootPerFirstFrameIdentity ==
    (Returned /\ splitNodes = {}) =>
        Len(rootNodes) = Cardinality(FirstFrameIdentities)

\* C11 outside the defect of C2
C11_OneRootPerFirstFrameIdentityWithoutMarker ==
    (Returned /\ splitNodes = {} /\ NoMarkerInFrames) =>
        Len(rootNodes) = Cardinality(FirstFrameIdentities)

\* C11 as worded, for every split set
C11_OneRootPerFirstFrameIdentityAnySplit ==
    Returned => Len(rootNodes) = Cardinality(FirstFrameIdentities)

----------------------------------------------------------------------------
(* Reading a refresh *)

\* the refresh went through its stackTrace requests and has posted
TracesDone == ppc = "ready" /\ Len(threads) > 0

PanelThreads == 1..Len(threads)

\* thread i's stackTrace request rejected or was answered without stackFrames
TraceFailed(i) == adapter[i].kind \in {"noStackFrames", "rejects"}

\* thread i's frames, outermost first, as the debug target reported them;
\* none when it reported none
OutermostFirst(i) ==
    IF adapter[i].kind = "stackFrames"
    THEN [k \in 1..Len(adapter[i].stackFrames) |->
             adapter[i].stackFrames[Len(adapter[i].stackFrames) + 1 - k]]
    ELSE <<>>

\* the snapshot in the order of the threads response
SnapshotOfAdapter ==
    [i \in PanelThreads |->
        [id |-> threads[i].id, name |-> threads[i].name, frames |-> OutermostFirst(i)]]

PostedCommands == [m \in 1..Len(posted) |-> posted[m].command]

(* C12 *)
\* C12: when a thread's stackTrace request rejects or is answered without
\* stackFrames, getStackGraph does not throw: the refresh posts no error and
\* posts the forest buildGraph gives for the snapshot in which that thread
\* has no frames and every other thread has its own.
C12_FailedTraceIsAnEmptyThread ==
    (TracesDone /\ \E i \in PanelThreads : TraceFailed(i)) =>
        posted = <<UpdateGraphMessage(buildGraph(SnapshotOfAdapter, {}))>>

\* a refresh has posted a forest built from one thread's frames while the
\* other thread's request rejected
C12_Witness ==
    /\ TracesDone
    /\ \E i, j \in PanelThreads :
          /\ adapter[i].kind = "rejects"
          /\ adapter[j].kind = "stackFrames"
          /\ Len(adapter[j].stackFrames) = 2
    /\ Len(posted) = 1
    /\ Len(posted[1].data.rootNodes) = 1

(* C13 *)
\* every stackTrace request but one has settled, one of them with frames, and
\* that one never answers
OneTraceNeverAnswers ==
    /\ ppc = "traces"
    /\ \E i \in PanelThreads :
          /\ adapter[i].kind = "never"
          /\ \A j \in PanelThreads \ {i} : threadDataPromises[j].settled
          /\ \E j \in PanelThreads \ {i} : Len(threadDataPromises[j].frames) > 0

\* C13: a stackTrace request that never answers does not hold the others
\* back: once every other request has settled, getStackGraph goes on to
\* build from the threads that answered and the refresh posts its result.
\* (Finite-run form: in that state the build-and-post step can be taken.)
C13_TimeoutsAreIsolated == OneTraceNeverAnswers => ENABLED PromiseAll

\* the same state left by any step at all
C13_RefreshCanGoOn == OneTraceNeverAnswers => ENABLED PanelNext

\* what holds instead: while a request is unanswered nothing is built and
\* nothing is posted
C13_NothingPostedWhileWaiting ==
    (ppc = "traces") => (posted = <<>> /\ calls = <<GetStackGraphCall>>)

(* C14 *)
BuildGraphCalls == {c \in 1..Len(calls) : calls[c].fn = "buildGraph"}

\* C14: when the threads request rejects or is answered without a threads
\* list, the refresh ends there: getStackGraph throws, buildGraph has not
\* been invoked, no stackTrace request has been sent, and the one message
\* posted for the refresh is an error.
C14_ThreadEnumerationFailureIsFatal ==
    [][(ThreadsRejects \/ ThreadsWithoutList) =>
          /\ ppc' = "ready"
          /\ PostedCommands' = <<"error">>
          /\ BuildGraphCalls' = {}
          /\ sent' = <<ThreadsRequest>>]_vars

\* a refresh has ended on a threads response without a list
C14_Witness ==
    /\ ppc = "ready"
    /\ posted = <<ErrorMessage("Invalid threads response")>>
    /\ calls = <<GetStackGraphCall>>

(* C15 *)
NoSessionReported ==
    \E m \in 1..Len(posted) : posted[m] = ErrorMessage("No active debug session")

\* C15: a refresh handled without an active debug session posts the error
\* 'No active debug session' and nothing else: getStackGraph and buildGraph
\* are not invoked and no request is sent to a debug target.
C15_NoSessionNoRequests ==
    NoSessionReported =>
        /\ PostedCommands = <<"error">>
        /\ calls = <<>>
        /\ sent = <<>>
        /\ ppc = "ready"

\* a refresh without a session has been handled: one message, no request
C15_Witness ==
    /\ NoSessionReported
    /\ Len(posted) = 1
    /\ sent = <<>>

(* C16 *)
AllSettled == \A i \in PanelThreads : threadDataPromises[i].settled

\* C16: whatever the order in which the stackTrace requests settle,
\* buildGraph is not invoked before all of them have settled and is then
\* invoked exactly once, with the threads in the order of the threads
\* response and each thread's frames outermost first; the forest posted is
\* that of this snapshot, so it does not depend on the order of settling.
C16_OneBuildAfterAllSettled ==
    /\ Cardinality(BuildGraphCalls) <= 1
    /\ BuildGraphCalls # {} => (AllSettled /\ TracesDone)
    /\ TracesDone =>
          /\ calls = <<GetStackGraphCall, BuildGraphCall(SnapshotOfAdapter)>>
          /\ posted = <<UpdateGraphMessage(buildGraph(SnapshotOfAdapter, {}))>>

\* two threads with two frames each have answered, the second before the
\* first, and the forest has the one root of their common outermost frame
C16_Witness ==
    /\ TracesDone
    /\ order = <<2, 1>>
    /\ \A i \in PanelThreads : Len(adapter[i].stackFrames) = 2
    /\ Len(posted[1].data.rootNodes) = 1
    /\ Len(posted[1].data.nodes) = 3

(* C17 *)
\* entry i carries the id of an earlier entry
RepeatsAnId(i) == \E j \in 1..(i - 1) : threadsData[j].id = threadsData[i].id

\* the snapshot in which every entry that repeats an id has a fresh one
WithFreshIds ==
    [i \in ThreadRefs |->
        [threadsData[i] EXCEPT !.id = IF RepeatsAnId(i)
                                      THEN Len(threadsData) + i ELSE @]]

\* a forest without what depends on thread ids: for each node the
\* representative frame and the children, and the root list
Shape(F) ==
    [rootNodes |-> F.rootNodes,
     nodes     |-> [n \in 1..Len(F.nodes) |->
                      [frame    |-> [F.nodes[n].frame EXCEPT !.threadIds = <<>>],
                       children |-> F.nodes[n].children]]]

\* entry i was walked on its own and the forest has the shape it has when
\* the repeated ids are fresh
WalkedAsIfDistinct ==
    /\ \A i \in ThreadRefs : WalkFollowsFrames(i)
    /\ Shape(Forest) = Shape(buildGraph(WithFreshIds, splitNodes))

\* an earlier entry with the id of entry i passed through node n
EarlierSameId(i, n) ==
    \E j \in 1..(i - 1) :
        /\ threadsData[j].id = threadsData[i].id
        /\ n \in Elems(walk[j])

MessageHasPath == editor.message.source.present /\ editor.message.source.hasPath

\* the selection is at the message's position counted from 0
SelectionConverted ==
    /\ editor.selected
    /\ editor.line = editor.message.line - 1
    /\ editor.character = editor.message.column - 1
    /\ editor.line >= 0
    /\ editor.character >= 0

\* C18: an 'openFile' message with a source path, once its document is
\* open, puts the selection at (line - 1, column - 1), both non-negative,
\* for every line and column a frame of the posted forest carries; a message
\* without a source or without a path opens nothing and sets no position.
C18_NavigationConvertsAddressing ==
    editor.handled =>
        /\ (MessageHasPath /\ editor.opened) => SelectionConverted
        /\ ~MessageHasPath => (~editor.opened /\ ~editor.selected)

\* C18 for frames whose line and column are 1-based
C18_NavigationFromOneBasedFrames ==
    (editor.handled /\ editor.message.line >= 1 /\ editor.message.column >= 1) =>
        /\ (MessageHasPath /\ editor.opened) => SelectionConverted
        /\ ~MessageHasPath => (~editor.opened /\ ~editor.selected /\ ~editor.failed)

(* C19 *)
\* the k-th frame of thread i created node n
Creates(i, k, n) ==
    /\ k \in 1..Len(walk[i])
    /\ walk[i][k] = n
    /\ n \in Elems(made[i])

\* the frame that created x was processed before the frame that created y:
\* an earlier thread, or an earlier frame of the same thread
CreatedBefore(x, y) ==
    \E i, j \in ThreadRefs :
        \E k \in 1..Len(walk[i]) : \E l \in 1..Len(walk[j]) :
            /\ Creates(i, k, x)
            /\ Creates(j, l, y)
            /\ (i < j \/ (i = j /\ k < l))

FirstAppearanceOrder(list) ==
    \A p, q \in 1..Len(list) :
        p # q => (p < q <=> CreatedBefore(list[p], list[q]))

\* a step of the loops keeps every sibling list as a prefix of what it
\* becomes
SiblingsKept ==
    pc = "loop" =>
        /\ IsPrefix(rootNodes, rootNodes')
        /\ \A n \in NodeRefs : IsPrefix(nodes[n].children, nodes'[n].children)

\* C19: at every point of a call, each sibling list is in the order in
\* which the frames that created its nodes were processed (threads in input
\* order, frames in sequence order), and no step of the loops reorders or
\* removes a sibling: a list only grows at its end.
C19_SiblingOrderIsFirstAppearance ==
    /\ [](\A list \in SiblingLists : FirstAppearanceOrder(list))
    /\ [][SiblingsKept]_vars

\* the second thread has added a second child under the root the first
\* thread made: the children are in the order of the threads
C19_Witness ==
    /\ Returned
    /\ Len(rootNodes) = 1
    /\ \E n \in NodeRefs :
          /\ Len(nodes[n].children) = 2
          /\ nodes[n].children[1] \in Elems(made[1])
          /\ nodes[n].children[2] \in Elems(made[2])

(* C20 *)
NoDuplicates(seq) == \A p, q \in 1..Len(seq) : seq[p] = seq[q] => p = q

\* entry j is the one that added position p of node n's membership: the
\* first entry with that id to pass through n
AddedBy(n, p, j) ==
    /\ threadsData[j].id = nodes[n].threadIds[p]
    /\ n \in Elems(walk[j])
    /\ ~EarlierSameId(j, n)

\* C20: after any number of processed frames, in every node threadIds has no
\* duplicate, threadNames is as long as threadIds and holds at each position
\* the name of the entry that added the id at that position, and the
\* representative frame's threadIds is the node's threadIds.
C20_MembershipListsStayParallel ==
    \A n \in NodeRefs :
        /\ NoDuplicates(nodes[n].threadIds)
        /\ Len(nodes[n].threadNames) = Len(nodes[n].threadIds)
        /\ \A p \in 1..Len(nodes[n].threadIds) :
              \E j \in ThreadRefs :
                  /\ AddedBy(n, p, j)
                  /\ nodes[n].threadNames[p] = threadsData[j].name
        /\ nodes[n].frame.threadIds = nodes[n].threadIds

\* in the middle of a call, the second entry, which repeats the first
\* entry's id, has just passed through a node the first entry made
C20_Witness ==
    /\ pc = "loop"
    /\ Len(threadsData) = 2
    /\ t = 2
    /\ threadsData[1].id = threadsData[2].id
    /\ Len(walk[1]) > 0
    /\ Len(walk[2]) = 1
    /\ walk[2][1] = walk[1][1]
    /\ nodes[walk[2][1]].threadNames = <<threadsData[1].name>>
    /\ f <= Len(threadsData[2].frames)

(* C21 *)
\* the orders in which n threads can be listed
ThreadOrders(n) ==
    {p \in [1..n -> 1..n] : \A a, b \in 1..n : p[a] = p[b] => a = b}

\* the snapshot T listed in the order p
Permuted(T, p) == [i \in 1..Len(T) |-> T[p[i]]]

RECURSIVE PathsBelow(_, _, _)
\* for every node at or below the sibling list `level` of forest F: the
\* node ids from a root down to it, with the set of its thread ids
PathsBelow(F, level, prefix) ==
    UNION {{<<prefix \o <<F.nodes[level[p]].id>>,
              Elems(F.nodes[level[p]].threadIds)>>}
             \cup PathsBelow(F, F.nodes[level[p]].children,
                             prefix \o <<F.nodes[level[p]].id>>)
            : p \in 1..Len(level)}

PathsOf(F) == PathsBelow(F, F.rootNodes, <<>>)

DistinctThreadIds ==
    \A i, j \in ThreadRefs : threadsData[i].id = threadsData[j].id => i = j

\* C21: for a snapshot with pairwise distinct thread ids and any split set,
\* the forest built from any reordering of the thread list has the same
\* root-to-node paths of node ids, each with the same set of thread ids, as
\* the forest built from the list as given.
C21_ThreadOrderInsensitive ==
    (Returned /\ DistinctThreadIds) =>
        \A p \in ThreadOrders(Len(threadsData)) :
            PathsOf(buildGraph(Permuted(threadsData, p), splitNodes)) = PathsOf(Forest)

\* two threads share a root and then part; listed the other way round the
\* forest is another one (its siblings are swapped) with the same paths
C21_Witness ==
    /\ Returned
    /\ Len(threadsData) = 2
    /\ Len(rootNodes) = 1
    /\ \E n \in NodeRefs : Len(nodes[n].children) = 2
    /\ buildGraph(Permuted(threadsData, <<2, 1>>), splitNodes) # Forest
    /\ PathsOf(buildGraph(Permuted(threadsData, <<2, 1>>), splitNodes)) = PathsOf(Forest)

(* C22 *)
\* at most one panel is live; currentPanel is that panel, or undefined when
\* none is live
OnePanel ==
    /\ Cardinality(LivePanels) <= 1
    /\ \A p \in LivePanels : currentPanel = p
    /\ LivePanels = {} => currentPanel = 0

\* createOrShow with a live panel creates none and reveals the live one;
\* with no live panel it creates one, which is live and current
CreateOrShowStep ==
    CreateOrShow =>
        IF LivePanels # {}
        THEN /\ Len(panels') = Len(panels)
             /\ LivePanels' = LivePanels
             /\ currentPanel' = currentPanel
             /\ panels'[currentPanel].revealed.done
        ELSE /\ Len(panels') = Len(panels) + 1
             /\ LivePanels' = {Len(panels')}
             /\ currentPanel' = Len(panels')

\* C22: after any sequence of createOrShow calls and panel disposals at most
\* one panel is live and currentPanel is that panel, or undefined when none
\* is live; createOrShow with a live panel only reveals it, and after a
\* dispose the next createOrShow creates a fresh panel.
C22_PanelSingleton == []OnePanel /\ [][CreateOrShowStep]_vars

\* a second panel has been created after the first was disposed, and has
\* been revealed by a further createOrShow
C22_Witness ==
    /\ Len(panels) = 2
    /\ panels[1].disposed
    /\ LivePanels = {2}
    /\ currentPanel = 2
    /\ panels[2].revealed.done

====
